---------------------------- MODULE Spec2Model ----------------------------
(***************************************************************************)
(* Model of common/config.py: the ConfigManager singleton, its two locks   *)
(* (the class-level creation lock and the per-instance reentrant lock),    *)
(* the load / reload / update operations on the backing JSON file, the     *)
(* read accessors and the FeatureFlag facade.                              *)
(*                                                                         *)
(* Raw values (JSON documents, Python dicts handed to update_config) are   *)
(* functions from the keys that are PRESENT to raw values; validated       *)
(* models (AppConfig, BotConfig, ...) are records with every field filled. *)
(***************************************************************************)
EXTENDS Integers, Sequences, FiniteSets, TLC

\* ------------------------------------------------------------------ bounds
NumThreads == 2
MaxEvents == 3
MaxEdits == 1

Threads == 1..NumThreads

\* ------------------------------------------------------------ data model
\* Python's None (JSON null) and an attribute that was never assigned.
None == "<None>"
Unset == <<>>

\* __version__, the default of AppConfig.version_info
DefaultVersion == "1.0.0"

\* JSON literals of the raw level for feature flag values
JTrue == "true"
JFalse == "false"
JNumber == "5"

\* dict.get(key, None) on a raw mapping
Opt(d, k) == IF k \in DOMAIN d THEN d[k] ELSE None

\* class VersionInfo: version is required, build_date defaults to None
ValidVersionInfo(rv) == "version" \in DOMAIN rv /\ rv.version # None
VersionInfo(rv) == [version |-> rv.version, build_date |-> Opt(rv, "build_date")]

\* class BotConfig: id is required, name and webhook_url are Optional
ValidBot(rb) == "id" \in DOMAIN rb /\ rb.id # None
BotConfig(rb) ==
    [id |-> rb.id, name |-> Opt(rb, "name"), webhook_url |-> Opt(rb, "webhook_url")]

\* class ChannelConfig: id and account_id are required, name is Optional
ValidChannel(rc) ==
    /\ "id" \in DOMAIN rc /\ rc.id # None
    /\ "account_id" \in DOMAIN rc /\ rc.account_id # None
ChannelConfig(rc) ==
    [id |-> rc.id, name |-> Opt(rc, "name"), account_id |-> rc.account_id]

\* Dict[str, bool]: every value must be a boolean
ValidFlag(tok) == tok \in {JTrue, JFalse}
BoolOf(tok) == tok = JTrue
TokOf(b) == IF b THEN JTrue ELSE JFalse

\* AppConfig(**data) raises ValidationError exactly when this is false
ValidAppConfig(data) ==
    /\ "bots" \in DOMAIN data =>
          \A i \in DOMAIN data.bots : ValidBot(data.bots[i])
    /\ "channels" \in DOMAIN data =>
          \A i \in DOMAIN data.channels : ValidChannel(data.channels[i])
    /\ "feature_flags" \in DOMAIN data =>
          \A n \in DOMAIN data.feature_flags : ValidFlag(data.feature_flags[n])
    /\ "version_info" \in DOMAIN data => ValidVersionInfo(data.version_info)

\* AppConfig(**data): absent fields take their default_factory value
AppConfig(data) ==
    [bots |-> IF "bots" \in DOMAIN data
              THEN [i \in DOMAIN data.bots |-> BotConfig(data.bots[i])]
              ELSE <<>>,
     channels |-> IF "channels" \in DOMAIN data
                  THEN [i \in DOMAIN data.channels |-> ChannelConfig(data.channels[i])]
                  ELSE <<>>,
     classes |-> IF "classes" \in DOMAIN data THEN data.classes ELSE <<>>,
     feature_flags |-> IF "feature_flags" \in DOMAIN data
                       THEN [n \in DOMAIN data.feature_flags |->
                                BoolOf(data.feature_flags[n])]
                       ELSE <<>>,
     version_info |-> IF "version_info" \in DOMAIN data
                      THEN VersionInfo(data.version_info)
                      ELSE [version |-> DefaultVersion, build_date |-> None]]

\* VersionInfo.dict()
VersionDict(vi) == [version |-> vi.version, build_date |-> vi.build_date]

\* a serialisation that left version_info out of the document
ToJsonNoVersion(c) ==
    [bots |-> c.bots,
     channels |-> c.channels,
     classes |-> c.classes,
     feature_flags |-> [n \in DOMAIN c.feature_flags |-> TokOf(c.feature_flags[n])]]

\* AppConfig.json(...): the document written to the backing file, every field present
ToJson(c) ==
    [bots |-> c.bots,
     channels |-> c.channels,
     classes |-> c.classes,
     feature_flags |-> [n \in DOMAIN c.feature_flags |-> TokOf(c.feature_flags[n])],
     version_info |-> VersionDict(c.version_info)]

\* an update that left the caller's mapping as it found it
WithoutInsertion(data, value) == data

\* data["version_info"] = value
WithVersionInfo(data, value) ==
    [k \in DOMAIN data \cup {"version_info"} |->
        IF k = "version_info" THEN value ELSE data[k]]

\* an install that keeps the classes it had and appends the new ones
InstalledAppending(old, new) ==
    IF old = Unset THEN new ELSE [new EXCEPT !.classes = old.classes \o new.classes]

\* a store that copied the new bots into the old snapshot one element at a time,
\* caught after the first element
InstalledInPlace(old, new) ==
    IF old # Unset /\ Len(old.bots) > 0 /\ Len(new.bots) > 0
    THEN [new EXCEPT !.bots = <<new.bots[1]>> \o Tail(old.bots)]
    ELSE new

\* self._config = config: the attribute is rebound to the new snapshot object
Installed(old, new) == new

\* --------------------------------------------------------- environment
Paths == {"a.json", "b.json"}
FlagNames == {"use_cache", "other"}
Accessors ==
    {"get_bots", "get_channels", "get_classes", "get_feature_flag", "get_version_info"}

\* file contents: no file, text that is not JSON, or a JSON object
Missing == [kind |-> "missing"]
Malformed == [kind |-> "malformed"]
JsonFile(doc) == [kind |-> "json", doc |-> doc]

DocA == [feature_flags |-> [use_cache |-> JTrue]]
DocB ==
    [bots |-> <<[id |-> "b1"], [id |-> "b2"]>>,
     channels |-> <<[id |-> "c1", account_id |-> "acc"]>>,
     classes |-> <<"B">>,
     feature_flags |-> [use_cache |-> JFalse],
     version_info |-> [version |-> "0.9.0", build_date |-> "2024-01-01"]]
DocBad == [bots |-> <<[name |-> "x"]>>]

FileContents == {Missing, Malformed, JsonFile(DocBad), JsonFile(DocA), JsonFile(DocB)}
EditContents == {Missing, Malformed, JsonFile(DocBad), JsonFile(DocA)}

\* the mappings callers hand to update_config; a caller may reuse its mapping
DictIds == {"d_classes", "d_bots", "d_bad"}
InitialDicts ==
    [d \in DictIds |->
        CASE d = "d_classes" -> [classes |-> <<"A">>]
          [] d = "d_bots" ->
                [bots |-> <<[id |-> "b2"], [id |-> "b1", name |-> "n1"]>>,
                 version_info |-> [version |-> "2.0.0"]]
          [] d = "d_bad" -> [feature_flags |-> [use_cache |-> JNumber]]]

\* ---------------------------------------------------------------- state
VARIABLES
    file,         \* the file system: path -> contents
    dicts,        \* the callers' mappings passed to update_config
    instance,     \* ConfigManager._instance: 0 is None, else the object's number
    created,      \* how many objects object.__new__ has made
    cls_lock,     \* ConfigManager._lock: 0 is free, else the holding thread
    config_path,  \* self._config_path
    config_lock,  \* self._config_lock, a reentrant lock: owner and depth
    config,       \* self._config, Unset until the first assignment
    installed,    \* the validated snapshot that the last assignment of self._config bound
    th,           \* the calls in progress, one per thread: position and locals
    outcome,      \* how the call that ended last ended: its value or its exception
    manager,      \* the reference callers hold: what instance() last returned, 0 if nothing
    calls,        \* calls started so far
    edits         \* external edits of files so far

vars ==
    <<file, dicts, instance, created, cls_lock, config_path, config_lock, config,
      installed, th, outcome, manager, calls, edits>>

IdleTh ==
    [pc |-> "idle", op |-> None, arg |-> None, raw |-> Unset,
     cfg |-> Unset, before |-> Unset, injected |-> FALSE, seen |-> {}]
NoOutcome == [kind |-> "none", op |-> None, arg |-> None, live |-> FALSE, seen |-> {}]

FreeLock == [owner |-> 0, count |-> 0]
Acquired(l, t) == [owner |-> t, count |-> l.count + 1]
Released(l) ==
    IF l.count <= 1 THEN FreeLock ELSE [owner |-> l.owner, count |-> l.count - 1]
CanAcquire(l, t) == l # Unset /\ l.owner \in {0, t}

Init ==
    /\ file \in {f \in [Paths -> FileContents] : f["b.json"] = JsonFile(DocB)}
    /\ dicts = InitialDicts
    /\ instance = 0
    /\ created = 0
    /\ cls_lock = 0
    /\ config_path = None
    /\ config_lock = Unset
    /\ config = Unset
    /\ installed = Unset
    /\ th = [t \in Threads |-> IdleTh]
    /\ outcome = NoOutcome
    /\ manager = 0
    /\ calls = 0
    /\ edits = 0

\* ------------------------------------------------------- call and return
\* a thread is a slot for one call in progress; the slots are interchangeable, so a
\* new call takes the lowest free one
Start(t, op, arg, pc) ==
    /\ th[t].pc = "idle"
    /\ \A u \in Threads : u < t => th[u].pc # "idle"
    /\ calls + edits < MaxEvents
    /\ calls' = calls + 1
    /\ th' = [th EXCEPT ![t] = [IdleTh EXCEPT !.pc = pc, !.op = op, !.arg = arg,
                                  !.seen = IF op = "get_bots" /\ config # Unset
                                           THEN {config.bots} ELSE {}]]
    /\ UNCHANGED outcome

\* an exception leaves every `with` block of the call: the locks t holds are released
\* an exception that left the locks of the raising call held
RaiseKeepingLocks(t, exc) ==
    /\ th' = [th EXCEPT ![t] = IdleTh]
    /\ outcome' = [kind |-> "raise", op |-> th[t].op, arg |-> th[t].arg, exc |-> exc,
                   at |-> th[t].pc, live |-> FALSE, seen |-> {}]
    /\ UNCHANGED <<cls_lock, config_lock>>

Raise(t, exc) ==
    /\ th' = [th EXCEPT ![t] = IdleTh]
    /\ outcome' = [kind |-> "raise", op |-> th[t].op, arg |-> th[t].arg, exc |-> exc,
                   at |-> th[t].pc, live |-> FALSE, seen |-> {}]
    /\ cls_lock' = IF cls_lock = t THEN 0 ELSE cls_lock
    /\ config_lock' = IF config_lock # Unset /\ config_lock.owner = t
                      THEN FreeLock ELSE config_lock

\* what a call handed back; the value is filed under the operation that returned
\* it, so that results of different operations are never taken for one another
Returned(t, value, live) ==
    [kind |-> "return", op |-> th[t].op, arg |-> th[t].arg,
     value |-> [o \in {th[t].op} |-> value],
     live |-> live, seen |-> th[t].seen, raw |-> th[t].raw]

Value(o) == o.value[o.op]

Return(t, value, live) ==
    /\ th' = [th EXCEPT ![t] = IdleTh]
    /\ outcome' = Returned(t, value, live)

Goto(t, pc) == th' = [th EXCEPT ![t].pc = pc]

\* a new snapshot object replaces the old one, and the installing call ends: what a
\* caller holds from the old snapshot no longer belongs to the store, and every
\* get_bots call in progress has lived through one more current value
InstallEffect(t, new, value) ==
    /\ config' = Installed(config, new)
    /\ installed' = new
    /\ th' = [u \in Threads |->
                IF u = t THEN IdleTh
                ELSE IF th[u].op = "get_bots"
                     THEN [th[u] EXCEPT !.seen = @ \cup {new.bots}]
                     ELSE th[u]]
    /\ outcome' = Returned(t, value, FALSE)

\* ------------------------------------------- ConfigManager.instance / _init
\* an instance() that initialised again whenever a path is given
MustCreateOrPath(inst, path) == inst = 0 \/ path # None

\* `if cls._instance is None`
MustCreate(inst, path) == inst = 0

PathArg(t) == IF th[t].op = "instance" THEN th[t].arg ELSE None

CallInstance(t, path) ==
    /\ Start(t, "instance", path, "in_acquire")
    /\ UNCHANGED <<file, dicts, instance, created, cls_lock, config_path, config_lock,
                   config, installed, manager, edits>>

\* FeatureFlag.is_enabled(flag_name): ConfigManager.instance() with no path
CallIsEnabled(t, name) ==
    /\ Start(t, "is_enabled", name, "in_acquire")
    /\ UNCHANGED <<file, dicts, instance, created, cls_lock, config_path, config_lock,
                   config, installed, manager, edits>>

\* lines 67-73 when the instance exists: it is returned under the lock; is_enabled
\* goes on to get_feature_flag
InstanceFound(t) ==
    /\ cls_lock' = cls_lock
    /\ IF th[t].op = "instance"
       THEN /\ Return(t, instance, FALSE)
            /\ manager' = instance
       ELSE /\ Goto(t, "acc_lock")
            /\ UNCHANGED <<outcome, manager>>
    /\ UNCHANGED <<instance, created, config_path, config_lock, config, installed>>

\* lines 71-72 and _init, lines 76-77: the new object is bound to cls._instance
\* before _init runs; the lock stays held while _load_config runs
InstanceCreate(t) ==
    /\ created' = created + 1
    /\ instance' = created + 1
    /\ config_path' = PathArg(t)
    /\ config_lock' = FreeLock
    /\ config' = Unset
    /\ installed' = Unset
    /\ cls_lock' = t
    /\ Goto(t, "ld_read")
    /\ UNCHANGED <<outcome, manager>>

\* lines 67-73: `with cls._lock:` and what it guards, up to the file read
InstanceEnter(t) ==
    /\ th[t].pc = "in_acquire"
    /\ cls_lock = 0
    /\ IF MustCreate(instance, PathArg(t))
       THEN IF PathArg(t) = None
            THEN /\ Raise(t, "ValueError")
                 /\ UNCHANGED <<instance, created, config_path, config, installed,
                                manager>>
            ELSE InstanceCreate(t)
       ELSE InstanceFound(t)
    /\ UNCHANGED <<file, dicts, calls, edits>>

\* `ConfigManager(...)`, lines 54-55: __new__ raises before any object exists
Construct(t) ==
    /\ th[t].pc = "idle"
    /\ \A u \in Threads : u < t => th[u].pc # "idle"
    /\ calls + edits < MaxEvents
    /\ calls' = calls + 1
    /\ outcome' = [kind |-> "raise", op |-> "ConfigManager", arg |-> None,
                   exc |-> "RuntimeError", at |-> "idle", live |-> FALSE, seen |-> {}]
    /\ UNCHANGED <<file, dicts, instance, created, cls_lock, config_path, config_lock,
                   config, installed, th, manager, edits>>

\* ------------------------------------------------- _load_config / reload
CallReload(t) ==
    /\ manager # 0
    /\ Start(t, "reload", None, "ld_read")
    /\ UNCHANGED <<file, dicts, instance, created, cls_lock, config_path, config_lock,
                   config, installed, manager, edits>>

\* a load that fell back to the defaults when the file is not JSON
LoadedOrDefaults(raw) ==
    IF raw.kind = "missing" THEN [exc |-> "FileNotFoundError", cfg |-> Unset]
    ELSE IF raw.kind = "malformed" THEN [exc |-> None, cfg |-> AppConfig(<<>>)]
    ELSE IF ~ValidAppConfig(raw.doc) THEN [exc |-> "RuntimeError", cfg |-> Unset]
    ELSE [exc |-> None, cfg |-> AppConfig(raw.doc)]

\* lines 84-89: read_text, json.loads, then AppConfig(**data), whose ValidationError
\* is re-raised as RuntimeError: the snapshot, or the exception raised
Loaded(raw) ==
    IF raw.kind = "missing" THEN [exc |-> "FileNotFoundError", cfg |-> Unset]
    ELSE IF raw.kind = "malformed" THEN [exc |-> "JSONDecodeError", cfg |-> Unset]
    ELSE IF ~ValidAppConfig(raw.doc) THEN [exc |-> "RuntimeError", cfg |-> Unset]
    ELSE [exc |-> None, cfg |-> AppConfig(raw.doc)]

\* lines 84-89 of _load_config; none of it is under self._config_lock
LoadRead(t) ==
    /\ th[t].pc = "ld_read"
    /\ LET raw == file[config_path] IN
       IF Loaded(raw).exc # None
       THEN Raise(t, Loaded(raw).exc)
       ELSE /\ th' = [th EXCEPT ![t].pc = "ld_lock", ![t].raw = raw,
                                ![t].cfg = Loaded(raw).cfg]
            /\ UNCHANGED <<outcome, cls_lock, config_lock>>
    /\ UNCHANGED <<file, dicts, instance, created, config_path, config, installed,
                   manager, calls, edits>>

\* lines 90-91: `with self._config_lock: self._config = config`; reload returns,
\* and instance() returns the object and leaves `with cls._lock`
LoadInstall(t) ==
    /\ th[t].pc = "ld_lock"
    /\ CanAcquire(config_lock, t)
    /\ config_lock' = config_lock
    /\ InstallEffect(t, th[t].cfg, IF th[t].op = "reload" THEN 0 ELSE instance)
    /\ cls_lock' = IF th[t].op = "reload" THEN cls_lock ELSE 0
    /\ manager' = IF th[t].op = "reload" THEN manager ELSE instance
    /\ UNCHANGED <<file, dicts, instance, created, config_path, calls, edits>>

\* ------------------------------------------------------------ accessors
CallAccessor(t, acc, name) ==
    /\ manager # 0
    /\ (name = None) = (acc # "get_feature_flag")
    /\ Start(t, acc, name, "acc_lock")
    /\ UNCHANGED <<file, dicts, instance, created, cls_lock, config_path, config_lock,
                   config, installed, manager, edits>>

AccessorOf(t) == IF th[t].op = "is_enabled" THEN "get_feature_flag" ELSE th[t].op

\* accessors whose flag lookup answers whether the key is there
AccValueKeyPresent(acc, name, c) ==
    CASE acc = "get_bots" -> c.bots
      [] acc = "get_channels" -> c.channels
      [] acc = "get_classes" -> c.classes
      [] acc = "get_feature_flag" -> name \in DOMAIN c.feature_flags
      [] acc = "get_version_info" -> c.version_info

\* the value an accessor returns, lines 102, 106, 110, 114, 118
AccValue(acc, name, c) ==
    CASE acc = "get_bots" -> c.bots
      [] acc = "get_channels" -> c.channels
      [] acc = "get_classes" -> c.classes
      [] acc = "get_feature_flag" ->
            IF name \in DOMAIN c.feature_flags THEN c.feature_flags[name] ELSE FALSE
      [] acc = "get_version_info" -> c.version_info

\* whether the returned value holds objects of the snapshot itself: list(...) copies
\* the list but not the BotConfig / ChannelConfig elements, and get_version_info
\* returns the snapshot's own VersionInfo
SharesObjects(acc) == acc \in {"get_bots", "get_channels", "get_version_info"}

\* an accessor, lines 100-118: it waits for the lock, reads under it and releases it
Access(t) ==
    /\ th[t].pc = "acc_lock"
    /\ CanAcquire(config_lock, t)
    /\ IF config = Unset
       THEN Raise(t, "AttributeError")
       ELSE /\ Return(t, AccValue(AccessorOf(t), th[t].arg, config),
                      SharesObjects(AccessorOf(t)))
            /\ UNCHANGED <<cls_lock, config_lock>>
    /\ UNCHANGED <<file, dicts, instance, created, config_path, config, installed,
                   manager, calls, edits>>

\* -------------------------------------------------------- update_config
CallUpdate(t, d) ==
    /\ manager # 0
    /\ Start(t, "update_config", d, "upd_lock")
    /\ UNCHANGED <<file, dicts, instance, created, cls_lock, config_path, config_lock,
                   config, installed, manager, edits>>

\* an update that filled in the default version instead of the current one
InjectedDefault(c) == [version |-> DefaultVersion, build_date |-> None]

\* line 127: the value stored under "version_info"
InjectedVersion(c) == VersionDict(c.version_info)

\* an update that kept the fields of the current snapshot its payload leaves out
AcceptedMerging(data) ==
    IF ~ValidAppConfig(data) THEN [exc |-> "ValidationError", cfg |-> Unset]
    ELSE [exc |-> None,
          cfg |-> IF config = Unset THEN AppConfig(data)
                  ELSE [f \in DOMAIN AppConfig(data) |->
                           IF f \in DOMAIN data THEN AppConfig(data)[f] ELSE config[f]]]

\* an update that did not validate its payload
AcceptedUnchecked(data) == [exc |-> None, cfg |-> AppConfig(data)]

\* line 129: AppConfig(**data), the new snapshot or pydantic's ValidationError
Accepted(data) ==
    IF ValidAppConfig(data) THEN [exc |-> None, cfg |-> AppConfig(data)]
    ELSE [exc |-> "ValidationError", cfg |-> Unset]

\* lines 124-129: the lock is taken, the caller's own mapping gets the current
\* version_info if it has none, and the mapping is validated; `before` remembers
\* the snapshot the update started from
UpdBegin(t) ==
    /\ th[t].pc = "upd_lock"
    /\ CanAcquire(config_lock, t)
    /\ LET d == dicts[th[t].arg]
           inject == "version_info" \notin DOMAIN d
       IN  IF inject /\ config = Unset
           THEN /\ Raise(t, "AttributeError")
                /\ UNCHANGED dicts
           ELSE LET data == IF inject THEN WithVersionInfo(d, InjectedVersion(config))
                            ELSE d
                IN  /\ dicts' = [dicts EXCEPT ![th[t].arg] = data]
                    /\ IF Accepted(data).exc # None
                       THEN Raise(t, Accepted(data).exc)
                       ELSE /\ th' = [th EXCEPT ![t].pc = "upd_write",
                                                ![t].before = config,
                                                ![t].injected = inject,
                                                ![t].cfg = Accepted(data).cfg]
                            /\ config_lock' = Acquired(config_lock, t)
                            /\ UNCHANGED <<outcome, cls_lock>>
    /\ UNCHANGED <<file, instance, created, config_path, config, installed, manager,
                   calls, edits>>

\* an update that bound self._config before writing the file
UpdWriteAssignFirst(t) ==
    /\ th[t].pc = "upd_write"
    /\ \E result \in {"written", "untouched", "truncated"} :
          CASE result = "written" ->
                  /\ file' = [file EXCEPT ![config_path] = JsonFile(ToJson(th[t].cfg))]
                  /\ Goto(t, "upd_install")
                  /\ UNCHANGED <<outcome, cls_lock, config_lock, config, installed>>
            [] result = "untouched" ->
                  /\ Raise(t, "OSError")
                  /\ config' = th[t].cfg /\ installed' = th[t].cfg
                  /\ UNCHANGED file
            [] result = "truncated" ->
                  /\ Raise(t, "OSError")
                  /\ config' = th[t].cfg /\ installed' = th[t].cfg
                  /\ file' = [file EXCEPT ![config_path] = Malformed]
    /\ UNCHANGED <<dicts, instance, created, config_path, manager, calls, edits>>

\* line 131: serialise and write. A failure before the file is opened leaves it as it
\* was; a failure after open(mode="w") leaves a truncated file, which is not JSON
UpdWrite(t) ==
    /\ th[t].pc = "upd_write"
    /\ \E result \in {"written", "untouched", "truncated"} :
          CASE result = "written" ->
                  /\ file' = [file EXCEPT ![config_path] = JsonFile(ToJson(th[t].cfg))]
                  /\ Goto(t, "upd_install")
                  /\ UNCHANGED <<outcome, cls_lock, config_lock>>
            [] result = "untouched" ->
                  /\ Raise(t, "OSError")
                  /\ UNCHANGED file
            [] result = "truncated" ->
                  /\ Raise(t, "OSError")
                  /\ file' = [file EXCEPT ![config_path] = Malformed]
    /\ UNCHANGED <<dicts, instance, created, config_path, config, installed, manager,
                   calls, edits>>

\* line 132 and the end of the `with`
UpdInstall(t) ==
    /\ th[t].pc = "upd_install"
    /\ config_lock' = Released(config_lock)
    /\ InstallEffect(t, th[t].cfg, 0)
    /\ UNCHANGED <<file, dicts, instance, created, cls_lock, config_path, manager,
                   calls, edits>>

\* ------------------------------------------------------ the file system
\* somebody outside the process rewrites or removes the backing file (what a file
\* holds before the store first reads it is chosen by Init)
ExternalEdit(p, c) ==
    /\ edits < MaxEdits
    /\ calls + edits < MaxEvents
    /\ p = config_path
    /\ c # file[p]
    /\ file' = [file EXCEPT ![p] = c]
    /\ edits' = edits + 1
    /\ UNCHANGED <<dicts, instance, created, cls_lock, config_path, config_lock, config,
                   installed, th, outcome, manager, calls>>

\* --------------------------------------------------------- specification
Next ==
    \/ \E t \in Threads, p \in Paths \cup {None} : CallInstance(t, p)
    \/ \E t \in Threads, n \in FlagNames : CallIsEnabled(t, n)
    \/ \E t \in Threads : InstanceEnter(t)
    \/ \E t \in Threads : Construct(t)
    \/ \E t \in Threads : CallReload(t)
    \/ \E t \in Threads : LoadRead(t)
    \/ \E t \in Threads : LoadInstall(t)
    \/ \E t \in Threads, a \in Accessors, n \in FlagNames \cup {None} :
          CallAccessor(t, a, n)
    \/ \E t \in Threads : Access(t)
    \/ \E t \in Threads, d \in DictIds : CallUpdate(t, d)
    \/ \E t \in Threads : UpdBegin(t)
    \/ \E t \in Threads : UpdWrite(t)
    \/ \E t \in Threads : UpdInstall(t)
    \/ \E p \in Paths, c \in EditContents : ExternalEdit(p, c)

Spec == Init /\ [][Next]_vars

\* the steps of the call running in slot t; a thread that can run does run
ThreadStep(t) ==
    \/ InstanceEnter(t)
    \/ LoadRead(t)
    \/ LoadInstall(t)
    \/ Access(t)
    \/ UpdBegin(t)
    \/ UpdWrite(t)
    \/ UpdInstall(t)

\* the scheduler keeps running some call that can run; every step of a call moves
\* its slot on, so th is the subscript
SpecFair == Spec /\ WF_th(\E t \in Threads : ThreadStep(t))

\* ------------------------------------ a caller that keeps its payload mapping
\* the store as instance("b.json") leaves it, lines 67-73 and 76-91, at the moment
\* a caller starts updating it; calls and edits count from that moment
InitReuse ==
    /\ file \in {f \in [Paths -> FileContents] : f["b.json"] = JsonFile(DocB)}
    /\ dicts = InitialDicts
    /\ instance = 1
    /\ created = 1
    /\ cls_lock = 0
    /\ config_path = "b.json"
    /\ config_lock = FreeLock
    /\ config = AppConfig(DocB)
    /\ installed = AppConfig(DocB)
    /\ th = [t \in Threads |-> IdleTh]
    /\ outcome = [kind |-> "return", op |-> "instance", arg |-> "b.json",
                  value |-> [o \in {"instance"} |-> 1],
                  live |-> FALSE, seen |-> {}, raw |-> JsonFile(DocB)]
    /\ manager = 1
    /\ calls = 0
    /\ edits = 0

\* `cfg.update_config(payload)` again and again with the mappings the caller holds
NextReuse ==
    \/ \E t \in Threads, d \in DictIds : CallUpdate(t, d)
    \/ \E t \in Threads : UpdBegin(t)
    \/ \E t \in Threads : UpdWrite(t)
    \/ \E t \in Threads : UpdInstall(t)

SpecReuse == InitReuse /\ [][NextReuse]_vars

\* ------------------------------------------- callers that change what they got
\* A caller changes an object it received from an accessor (pydantic models accept
\* attribute assignment unless configured otherwise). No lock is involved.
\* The value of the call that ended last stands for what the caller holds; it
\* shares objects with the store while outcome.live.
Hacked == "hacked"

\* `vi = manager.get_version_info(); vi.version = ...`: the snapshot's own object
MutateVersionInfo ==
    /\ outcome.kind = "return" /\ outcome.op = "get_version_info"
    /\ Value(outcome).version # Hacked
    /\ outcome' = [outcome EXCEPT !.value[outcome.op].version = Hacked]
    /\ config' = IF outcome.live THEN [config EXCEPT !.version_info.version = Hacked]
                 ELSE config
    /\ UNCHANGED <<file, dicts, instance, created, cls_lock, config_path, config_lock,
                   installed, th, manager, calls, edits>>

\* `bots = manager.get_bots(); bots[0].name = ...`: an element of the copied list is
\* the snapshot's own BotConfig (ChannelConfig for get_channels)
MutateElement ==
    /\ outcome.kind = "return" /\ outcome.op \in {"get_bots", "get_channels"}
    /\ Len(Value(outcome)) > 0
    /\ Value(outcome)[1].name # Hacked
    /\ outcome' = [outcome EXCEPT !.value[outcome.op][1].name = Hacked]
    /\ config' = IF ~outcome.live THEN config
                 ELSE IF outcome.op = "get_bots"
                      THEN [config EXCEPT !.bots[1].name = Hacked]
                      ELSE [config EXCEPT !.channels[1].name = Hacked]
    /\ UNCHANGED <<file, dicts, instance, created, cls_lock, config_path, config_lock,
                   installed, th, manager, calls, edits>>

\* `bots = manager.get_bots(); bots.clear()`: the list itself is the caller's copy
MutateList ==
    /\ outcome.kind = "return"
    /\ outcome.op \in {"get_bots", "get_channels", "get_classes"}
    /\ Len(Value(outcome)) > 0
    /\ outcome' = [outcome EXCEPT !.value[outcome.op] = <<>>]
    /\ UNCHANGED <<file, dicts, instance, created, cls_lock, config_path, config_lock,
                   config, installed, th, manager, calls, edits>>

NextAlias == Next \/ MutateVersionInfo \/ MutateElement \/ MutateList

SpecAlias == Init /\ [][NextAlias]_vars

\* ================================================================ claims
\* the step taken is one of thread t's call
Steps(t) == th'[t] # th[t] /\ th[t].pc # "idle"
\* the step ends thread t's call
Ends(t) == th[t].pc # "idle" /\ th'[t].pc = "idle"
HoldsConfigLock(t) == config_lock # Unset /\ config_lock.owner = t

\* C1: a thread that has taken the first step of reload() or update_config() (for
\* reload, the read of the backing file) and has not yet finished holds the store's
\* operation lock.
C1_LockHeldThroughout ==
    \A t \in Threads :
        (th[t].op \in {"reload", "update_config"}
            /\ th[t].pc \in {"ld_lock", "upd_write", "upd_install"})
        => HoldsConfigLock(t)

\* C2: an instance() call that returns hands out an instance that has a validated
\* snapshot; a failed initialize leaves the store uninitialized, so the next
\* initialize(path2) reads path2.
C2_ReturnedInstanceHasSnapshot ==
    (outcome.kind = "return" /\ outcome.op = "instance")
    => (config # Unset /\ manager # 0)

\* C3: when update_config fails at the write of the backing file, the in-memory
\* snapshot is the one the update started from.
C3_FailedWriteKeepsSnapshot ==
    [][\A t \in Threads :
          (th[t].pc = "upd_write" /\ Ends(t) /\ outcome'.kind = "raise")
          => (config' = config /\ config' = th[t].before)]_vars

C3_Witness ==
    /\ outcome.kind = "raise" /\ outcome.op = "update_config"
    /\ outcome.at = "upd_write" /\ outcome.exc = "OSError"
    /\ config # Unset

\* C4: update_config with a payload that fails validation (a feature flag that is
\* not a boolean) raises, and leaves the backing file and the snapshot as they were.
C4_InvalidUpdateChangesNothing ==
    [][\A t \in Threads :
          (th[t].pc = "upd_lock" /\ th[t].arg = "d_bad" /\ Steps(t))
          => (Ends(t) /\ outcome'.kind = "raise" /\ file' = file /\ config' = config)]_vars

C4_Witness ==
    /\ outcome.kind = "raise" /\ outcome.op = "update_config"
    /\ outcome.exc = "ValidationError" /\ outcome.arg = "d_bad"
    /\ config # Unset /\ file[config_path] = JsonFile(DocA)

\* C5: a reload() that finds the backing file missing, not JSON or violating the
\* schema raises and leaves the snapshot as it was; a reload that replaces the
\* snapshot installs what it validated from the file it read.
C5_FailedReloadKeepsSnapshot ==
    [][\A t \in Threads :
          /\ (th[t].op = "reload" /\ th[t].pc = "ld_read" /\ Steps(t)
                /\ file[config_path] \in {Missing, Malformed, JsonFile(DocBad)})
             => (Ends(t) /\ outcome'.kind = "raise" /\ config' = config)
          /\ (th[t].op = "reload" /\ Steps(t) /\ config' # config)
             => (th[t].raw.kind = "json" /\ ValidAppConfig(th[t].raw.doc)
                   /\ config' = AppConfig(th[t].raw.doc))]_vars

C5_Witness ==
    /\ outcome.kind = "raise" /\ outcome.op = "reload"
    /\ outcome.exc = "JSONDecodeError"
    /\ config # Unset

\* C6: a list returned by get_bots() is the bots list of a snapshot that was
\* current at some moment of the call: with an update during the call, the list of
\* before the update or the list of after it, never a mixture.
C6_BotsListIsOneSnapshots ==
    (outcome.kind = "return" /\ outcome.op = "get_bots")
    => Value(outcome) \in outcome.seen

C6_Witness ==
    /\ outcome.kind = "return" /\ outcome.op = "get_bots"
    /\ Cardinality(outcome.seen) = 2
    /\ \A l \in outcome.seen : Len(l) > 0
    /\ Value(outcome) = config.bots
    /\ outcome.seen = {AppConfig(DocB).bots, AppConfig(InitialDicts["d_bots"]).bots}

\* C7: whatever callers do with the values accessors returned, every accessor
\* returns the value of the installed snapshot.
C7_NoAliasing ==
    config # Unset =>
        \A acc \in Accessors, n \in FlagNames :
            AccValue(acc, n, config) = AccValue(acc, n, installed)

\* C8: once a snapshot is installed, instance(), with no path, the backing path or
\* another path, returns the existing instance in one step, without a read of any
\* file and with the snapshot and the backing path as they were.
C8_LaterInitializeReturnsSame ==
    [][\A t \in Threads :
          (th[t].op = "instance" /\ th[t].pc = "in_acquire" /\ config # Unset
             /\ Steps(t))
          => (/\ Ends(t)
              /\ outcome' = Returned(t, instance, FALSE)
              /\ UNCHANGED <<instance, created, config, config_path, file>>)]_vars

C8_Witness ==
    /\ outcome.kind = "return" /\ outcome.op = "instance"
    /\ outcome.arg = "b.json" /\ config_path = "a.json"
    /\ config = AppConfig(DocA)

\* C9: while the store has no validated snapshot, FeatureFlag.is_enabled fails with
\* the error of the uninitialized store (ValueError), and creates nothing.
C9_IsEnabledBeforeInitialize ==
    (outcome.op = "is_enabled" /\ outcome.kind # "none" /\ config = Unset)
    => (outcome.kind = "raise" /\ outcome.exc = "ValueError")

\* C10: an update_config whose payload has no version_info key when the update
\* looks at it installs a snapshot whose version_info is the one of the snapshot
\* it replaces.
C10_VersionInfoPreserved ==
    [][\A t \in Threads :
          (th[t].pc = "upd_install" /\ th[t].injected /\ Ends(t))
          => (/\ config # Unset
              /\ config'.version_info = config.version_info
              /\ config = th[t].before)]_vars

C10_Witness ==
    /\ outcome.kind = "return" /\ outcome.op = "update_config"
    /\ outcome.arg = "d_classes"
    /\ config.classes = <<"A">>
    /\ config.version_info = [version |-> "0.9.0", build_date |-> "2024-01-01"]

\* what a payload asks for, field by field, read off the raw mapping
SameBots(raw, bots) ==
    /\ Len(bots) = Len(raw)
    /\ \A i \in DOMAIN raw :
          /\ bots[i].id = raw[i].id
          /\ bots[i].name = Opt(raw[i], "name")
          /\ bots[i].webhook_url = Opt(raw[i], "webhook_url")
SameChannels(raw, channels) ==
    /\ Len(channels) = Len(raw)
    /\ \A i \in DOMAIN raw :
          /\ channels[i].id = raw[i].id
          /\ channels[i].name = Opt(raw[i], "name")
          /\ channels[i].account_id = raw[i].account_id
SameFlags(raw, flags) ==
    /\ DOMAIN flags = DOMAIN raw
    /\ \A n \in DOMAIN raw : flags[n] = (raw[n] = JTrue)
\* snapshot c holds what payload x asks for; a field x omits is not constrained
HoldsPayload(x, c) ==
    /\ "bots" \in DOMAIN x => SameBots(x.bots, c.bots)
    /\ "channels" \in DOMAIN x => SameChannels(x.channels, c.channels)
    /\ "classes" \in DOMAIN x => c.classes = x.classes
    /\ "feature_flags" \in DOMAIN x => SameFlags(x.feature_flags, c.feature_flags)

\* C11: when update_config(X) has written the backing file, a store initialized
\* from that file gets the snapshot the update installs: X's fields, with X's
\* version_info if X had one and else the version_info of the snapshot before.
C11_RoundTrip ==
    [][\A t \in Threads :
          (th[t].pc = "upd_write" /\ th'[t].pc = "upd_install")
          => LET x == dicts[th[t].arg]
                 fresh == Loaded(file'[config_path])
             IN  /\ fresh.exc = None
                 /\ fresh.cfg = th[t].cfg
                 /\ HoldsPayload(x, fresh.cfg)
                 /\ fresh.cfg.version_info =
                       IF th[t].injected THEN th[t].before.version_info
                       ELSE [version |-> x.version_info.version,
                             build_date |-> Opt(x.version_info, "build_date")]]_vars

C11_Witness ==
    /\ outcome.kind = "return" /\ outcome.op = "update_config"
    /\ outcome.arg = "d_bots"
    /\ file[config_path] = JsonFile(ToJson(config))
    /\ config.version_info.version = "2.0.0"
    /\ Len(config.bots) = 2

\* C12: whichever operation meets it, a missing file raises the I/O error, a
\* malformed file the JSON parse error, and a document that violates the schema
\* the same validation error that update_config raises for it as a payload;
\* none of them is the error of an uninitialized instance() call.
C12_SameKindEverywhere ==
    [][\A t \in Threads :
          (th[t].pc = "ld_read" /\ Ends(t) /\ outcome'.kind = "raise")
          => LET raw == file[config_path] IN
             /\ raw.kind = "missing" => outcome'.exc = "FileNotFoundError"
             /\ raw.kind = "malformed" => outcome'.exc = "JSONDecodeError"
             /\ raw.kind = "json" => outcome'.exc = Accepted(raw.doc).exc
             /\ outcome'.exc # "ValueError"]_vars

\* C13: on a store that has a snapshot, get_feature_flag(name) (also when reached
\* through FeatureFlag.is_enabled) returns the boolean feature_flags maps name to,
\* returns False when name is not a key, never raises, and leaves the snapshot
\* as it was.
C13_FlagLookup ==
    [][\A t \in Threads :
          (/\ th[t].pc = "acc_lock" /\ Ends(t)
           /\ th[t].op \in {"get_feature_flag", "is_enabled"}
           /\ config # Unset)
          => /\ outcome'.kind = "return"
             /\ Value(outcome') \in BOOLEAN
             /\ Value(outcome') = (/\ th[t].arg \in DOMAIN config.feature_flags
                                   /\ config.feature_flags[th[t].arg])
             /\ config' = config]_vars

C13_Witness ==
    /\ outcome.kind = "return" /\ outcome.op = "get_feature_flag"
    /\ outcome.arg = "other" /\ Value(outcome) = FALSE
    /\ config # Unset
    /\ DOMAIN config.feature_flags = {"use_cache"}

\* C14: a reload() that ends right after another reload() returned, having read
\* the same file content as that one, leaves the snapshot structurally equal to
\* the one the first reload installed, so every accessor returns what it did.
C14_ReloadIdempotent ==
    [][\A t \in Threads :
          (/\ th[t].pc = "ld_lock" /\ th[t].op = "reload" /\ Ends(t)
           /\ outcome.kind = "return" /\ outcome.op = "reload"
           /\ outcome.raw = th[t].raw)
          => /\ config' = config
             /\ \A acc \in Accessors, n \in FlagNames :
                   AccValue(acc, n, config') = AccValue(acc, n, config)]_vars

C14_Witness ==
    /\ outcome.kind = "return" /\ outcome.op = "reload"
    /\ edits = 0
    /\ \E t \in Threads :
          /\ th[t].pc = "ld_lock" /\ th[t].op = "reload"
          /\ th[t].raw = outcome.raw
          /\ th[t].raw = JsonFile(DocB)

\* C15: with no external edit of the backing file and no torn write, whenever the
\* store has a snapshot and no call is in progress, the snapshot is the
\* configuration the backing file holds; a reload that overlapped a completed
\* update does not put the older snapshot back.
C15_SnapshotMatchesFile ==
    (/\ edits = 0
     /\ config # Unset
     /\ file[config_path].kind = "json"
     /\ \A t \in Threads : th[t].pc = "idle")
    => /\ Loaded(file[config_path]).exc = None
       /\ Loaded(file[config_path]).cfg = config

\* C16: however first-time instance(path) calls interleave, at most one
\* ConfigManager object is ever created, the file read of initialization is made
\* only by the call that created it, and every instance() call that returns
\* returns that object; ConfigManager(...) raises and leaves the instance alone.
C16_OneInstance ==
    /\ [](/\ created <= 1
          /\ instance = created
          /\ Cardinality({t \in Threads : th[t].op = "instance"
                                           /\ th[t].pc \in {"ld_read", "ld_lock"}}) <= 1
          /\ (outcome.kind = "return" /\ outcome.op = "instance")
             => (Value(outcome) = instance /\ instance = 1))
    /\ [][/\ \A t \in Threads :
               (th[t].pc # "ld_read" /\ th'[t].pc = "ld_read" /\ th'[t].op = "instance")
               => (created = 0 /\ created' = 1 /\ manager = 0)
          /\ (calls' = calls + 1 /\ th' = th)
             => (/\ outcome'.kind = "raise" /\ outcome'.exc = "RuntimeError"
                 /\ UNCHANGED <<instance, created, config, manager, cls_lock>>)]_vars

C16_Witness ==
    /\ created = 1
    /\ \E t, u \in Threads :
          /\ th[t].op = "instance" /\ th[t].pc = "ld_lock" /\ cls_lock = t
          /\ th[u].op = "instance" /\ th[u].pc = "in_acquire" /\ th[u].arg # None

\* C17: under fair scheduling every call in progress ends, by returning or by
\* raising, so that from some point on no call is left in progress; a thread
\* that asks for the class lock does not hold the configuration lock, and the
\* configuration lock is taken under the class lock only by the call that
\* creates the store; a lock is held only by a call still in progress, so it is
\* released when the call ends, also when it ends with an exception.
C17_DeadlockFree ==
    /\ [](\A t \in Threads :
             /\ th[t].pc = "idle" => (cls_lock # t /\ ~HoldsConfigLock(t))
             /\ th[t].pc = "in_acquire" => ~HoldsConfigLock(t)
             /\ cls_lock = t => (th[t].op = "instance" /\ ~HoldsConfigLock(t)))
    /\ <>[](\A t \in Threads : th[t].pc = "idle")

C17_Witness ==
    /\ outcome.kind = "raise" /\ outcome.at = "upd_write"
    /\ config_lock = FreeLock /\ cls_lock = 0
    /\ \E u \in Threads : th[u].pc \in {"acc_lock", "upd_lock", "ld_lock"}

\* C18: the snapshot a successful update_config installs holds, for bots,
\* channels, classes and feature_flags, what the payload gives for the key when
\* the payload has it and nothing (an empty list, an empty mapping) when the
\* payload leaves it out, whatever the snapshot before held.
C18_UpdateReplaces ==
    [][\A t \in Threads :
          (th[t].pc = "upd_install" /\ Ends(t))
          => LET x == dicts[th[t].arg] IN
             /\ HoldsPayload(x, config')
             /\ "bots" \notin DOMAIN x => config'.bots = <<>>
             /\ "channels" \notin DOMAIN x => config'.channels = <<>>
             /\ "classes" \notin DOMAIN x => config'.classes = <<>>
             /\ "feature_flags" \notin DOMAIN x => DOMAIN config'.feature_flags = {}]_vars

C18_Witness ==
    /\ outcome.kind = "return" /\ outcome.op = "update_config"
    /\ outcome.arg = "d_classes"
    /\ config.classes = <<"A">>
    /\ config.bots = <<>> /\ config.channels = <<>>
    /\ DOMAIN config.feature_flags = {}
    /\ config.version_info = AppConfig(DocB).version_info

\* C19: on a store that has a snapshot, an update_config whose payload mapping
\* has no version_info key puts that key into the caller's own mapping, holding the version_info of the snapshot
\* current at that moment, also when the payload is then rejected or the write
\* fails; an update_config given a mapping that has the key, as a reused mapping
\* has, installs the mapping's version_info, not the one the store holds then.
C19_PayloadMutated ==
    [][\A t \in Threads :
          LET d == th[t].arg IN
          /\ (/\ th[t].pc = "upd_lock" /\ th'[t] # th[t]
              /\ config # Unset
              /\ "version_info" \notin DOMAIN dicts[d])
             => /\ DOMAIN dicts'[d] = DOMAIN dicts[d] \cup {"version_info"}
                /\ \A k \in DOMAIN dicts[d] : dicts'[d][k] = dicts[d][k]
                /\ dicts'[d].version_info.version = config.version_info.version
                /\ dicts'[d].version_info.build_date = config.version_info.build_date
          /\ (th[t].pc \in {"upd_write", "upd_install"} /\ th'[t] # th[t])
             => dicts' = dicts
          /\ (th[t].pc = "upd_install" /\ Ends(t) /\ ~th[t].injected)
             => /\ config'.version_info.version = dicts[d].version_info.version
                /\ config'.version_info.build_date =
                      Opt(dicts[d].version_info, "build_date")]_vars

\* the caller's d_classes mapping, filled with 0.9.0 by an earlier update, is on
\* its way into a store that has moved on to 2.0.0
C19_Witness ==
    /\ "version_info" \notin DOMAIN InitialDicts["d_classes"]
    /\ config.version_info.version = "2.0.0"
    /\ \E t \in Threads :
          /\ th[t].pc = "upd_install" /\ th[t].arg = "d_classes"
          /\ ~th[t].injected
          /\ th[t].cfg.version_info.version = "0.9.0"
          /\ Loaded(file[config_path]).cfg = th[t].cfg
=============================================================================
